---- MODULE Spec2Model ----
(***************************************************************************)
(* Model of Banco.py: a terminal bank simulation.  One running program is  *)
(* an "instance": its locals in main() (saldo, extrato, numero_saques,     *)
(* usuarios, contas), the command it last read and what it printed.  The   *)
(* two JSON files of the working directory are shared by all instances.    *)
(*                                                                         *)
(* Console lines are sequences of one-character strings.  Money is a       *)
(* Python float; it is modelled as an exact number of centavos (0.01),     *)
(* with the float infinity as the value Inf.  Binary rounding of finite    *)
(* floats is not modelled.                                                 *)
(***************************************************************************)
EXTENDS Integers, Sequences, FiniteSets, TLC

\* ------------------------------------------------------------ bounds
\* Most deposits of a session (a deposit beyond it is not taken).  The
\* withdrawals need no bound: the program stops them at LIMITE_SAQUES.
MaxDepositos == 2
\* Most records of the user directory and of the account directory.
MaxUsuarios == 2
MaxContas == 2

\* --------------------------------------------------------- constants
LIMITE_SAQUES == 3
AGENCIA == <<"0", "0", "0", "1">>
USUARIOS_FILE == "usuarios.json"
CONTAS_FILE == "contas.json"
\* limite = 500 in main(), in centavos.
limite == 500 * 100
\* float("inf"): greater than every finite amount of the model.
Inf == 1000000000

\* The program instances.  Spec runs instance 1 alone, SpecDois runs both.
Inst == {1, 2}

VARIABLES
    arquivos,        \* file name -> content (absent, or a JSON document)
    pc,              \* instance -> position in main()
    saldo,           \* instance -> balance
    extrato,         \* instance -> statement, a sequence of lines
    numero_saques,   \* instance -> withdrawals made
    usuarios,        \* instance -> user directory (list of dicts)
    contas,          \* instance -> account directory (list of dicts)
    opcao,           \* instance -> the command menu() last returned
    saida            \* instance -> the messages printed by the last command

vars == <<arquivos, pc, saldo, extrato, numero_saques, usuarios, contas,
          opcao, saida>>

\* ------------------------------------------------------------ messages
MsgValorInvalido == "Operacao falhou! O valor informado e invalido."
MsgDeposito == "Deposito realizado com sucesso!"
MsgSemSaldo == "Operacao falhou! Voce nao tem saldo suficiente."
MsgExcedeLimite == "Operacao falhou! O valor do saque excede o limite."
MsgExcedeSaques == "Operacao falhou! Numero maximo de saques excedido."
MsgSaque == "Saque realizado com sucesso!"
MsgCpfExiste == "Ja existe usuario com esse CPF!"
MsgUsuarioCriado == "Usuario criado com sucesso!"
MsgContaCriada == "Conta criada com sucesso!"
MsgSemUsuario == "Usuario nao encontrado, fluxo de criacao de conta encerrado!"
MsgSaindo == "Saindo do sistema. Ate mais!"
MsgOpcaoInvalida == "Operacao invalida, por favor selecione novamente a operacao desejada."
MsgSemMovimento == "Nao foram realizadas movimentacoes."

\* ------------------------------------------------- float(text), f"{v:.2f}"
Digitos == {"0", "1", "2", "3", "4", "5", "6", "7", "8", "9"}

DigitoVal(c) ==
    CASE c = "0" -> 0 [] c = "1" -> 1 [] c = "2" -> 2 [] c = "3" -> 3
      [] c = "4" -> 4 [] c = "5" -> 5 [] c = "6" -> 6 [] c = "7" -> 7
      [] c = "8" -> 8 [] c = "9" -> 9

SoDigitos(s) == \A k \in 1..Len(s) : s[k] \in Digitos

RECURSIVE NumeroDe(_)
NumeroDe(s) ==
    IF s = <<>> THEN 0
    ELSE 10 * NumeroDe(SubSeq(s, 1, Len(s) - 1)) + DigitoVal(s[Len(s)])

\* Position of the decimal point, 0 when there is none.
PosPonto(s) ==
    IF \E k \in 1..Len(s) : s[k] = "." THEN CHOOSE k \in 1..Len(s) : s[k] = "."
    ELSE 0

\* An unsigned decimal literal with at most two fraction digits: "10", "10.5",
\* "0.25", "7.", ".5".
EhDecimal(s) ==
    LET p == PosPonto(s)
        int == IF p = 0 THEN s ELSE SubSeq(s, 1, p - 1)
        frac == IF p = 0 THEN <<>> ELSE SubSeq(s, p + 1, Len(s))
    IN  /\ SoDigitos(int) /\ SoDigitos(frac)
        /\ Len(int) + Len(frac) > 0
        /\ Len(frac) <= 2

\* Its value in centavos.
Centavos(s) ==
    LET p == PosPonto(s)
        int == IF p = 0 THEN s ELSE SubSeq(s, 1, p - 1)
        frac == IF p = 0 THEN <<>> ELSE SubSeq(s, p + 1, Len(s))
    IN  100 * NumeroDe(int)
        + (IF Len(frac) = 1 THEN 10 * NumeroDe(frac) ELSE NumeroDe(frac))

\* float(text): the value, or nan, or ValueError raised.
Float(t) ==
    LET sinal == t # <<>> /\ t[1] \in {"-", "+"}
        neg == t # <<>> /\ t[1] = "-"
        corpo == IF sinal THEN Tail(t) ELSE t
    IN  IF corpo = <<"i", "n", "f">>
        THEN [classe |-> "float", v |-> IF neg THEN 0 - Inf ELSE Inf]
        ELSE IF corpo = <<"n", "a", "n">>
        THEN [classe |-> "nan", v |-> 0]
        ELSE IF EhDecimal(corpo)
        THEN [classe |-> "float",
              v |-> IF neg THEN 0 - Centavos(corpo) ELSE Centavos(corpo)]
        ELSE [classe |-> "ValueError", v |-> 0]

\* Float addition and subtraction; b is finite in FSub (a withdrawal is at
\* most limite).
FAdd(a, b) == IF a = Inf \/ b = Inf THEN Inf ELSE a + b
FSub(a, b) == IF a = Inf THEN Inf ELSE a - b

\* f"{v:.2f}" of a non-negative amount: the integer part, a point, two digits.
RECURSIVE DigitosDe(_)
DigitosDe(n) ==
    LET d == <<"0", "1", "2", "3", "4", "5", "6", "7", "8", "9">>[(n % 10) + 1]
    IN  IF n < 10 THEN <<d>> ELSE Append(DigitosDe(n \div 10), d)

Formatar2f(v) ==
    IF v = Inf THEN <<"i", "n", "f">>
    ELSE DigitosDe(v \div 100) \o <<".">>
         \o DigitosDe((v % 100) \div 10) \o DigitosDe(v % 10)

\* ------------------------------------------------------------ JSON files
\* A JSON document, as json.dump writes it and json.load reads it: strings,
\* numbers, arrays, and objects whose members keep their written order.
JStr(s) == [t |-> "string", s |-> s]
JNum(n) == [t |-> "number", n |-> n]
JArr(a) == [t |-> "array", itens |-> a]
JObj(m) == [t |-> "object", membros |-> m]
\* The content of a file that does not exist.
Ausente == [t |-> "ausente"]

\* json.dump of a user dict: its keys in insertion order (line 105).
DumpUsuario(u) ==
    JObj(<< <<"nome", JStr(u.nome)>>,
            <<"data_nascimento", JStr(u.data_nascimento)>>,
            <<"cpf", JStr(u.cpf)>>,
            <<"endereco", JStr(u.endereco)>> >>)

\* json.dump of an account dict (line 121): the owner is written in full.
DumpConta(c) ==
    JObj(<< <<"agencia", JStr(c.agencia)>>,
            <<"numero_conta", JNum(c.numero_conta)>>,
            <<"usuario", DumpUsuario(c.usuario)>> >>)

DumpUsuarios(us) == JArr([k \in 1..Len(us) |-> DumpUsuario(us[k])])
DumpContas(cs) == JArr([k \in 1..Len(cs) |-> DumpConta(cs[k])])

\* json.load: an array becomes a list, an object a dict (of a repeated key the
\* last member stays), a string or a number its value.
RECURSIVE JsonLoad(_)
JsonLoad(j) ==
    CASE j.t = "string" -> j.s
      [] j.t = "number" -> j.n
      [] j.t = "array" -> [k \in 1..Len(j.itens) |-> JsonLoad(j.itens[k])]
      [] j.t = "object" ->
            LET m == j.membros
                ultimo(key) == CHOOSE k \in 1..Len(m) :
                                  /\ m[k][1] = key
                                  /\ \A l \in (k + 1)..Len(m) : m[l][1] # key
            IN  [key \in {m[k][1] : k \in 1..Len(m)} |-> JsonLoad(m[ultimo(key)][2])]

\* carregar_dados(arquivo): the parsed file, or [] when there is no file.
carregar_dados(arquivo) ==
    IF arquivos[arquivo].t # "ausente" THEN JsonLoad(arquivos[arquivo]) ELSE <<>>

\* Mutant: the file is opened to append, not to overwrite.
salvar_dados_acrescenta(arquivo, doc) ==
    [arquivos EXCEPT ![arquivo] =
        IF arquivos[arquivo].t = "ausente" THEN doc
        ELSE JArr(arquivos[arquivo].itens \o doc.itens)]

\* salvar_dados(arquivo, dados): the files after the whole file is rewritten;
\* doc is json.dump(dados).
salvar_dados(arquivo, doc) == [arquivos EXCEPT ![arquivo] = doc]

\* ------------------------------------------------------- program functions
\* What a print() writes: a message, or a rendered block.
Msg(m) == [texto |-> m]

\* Mutant: the sign of the amount is not checked.
validar_valor_sem_sinal(texto) ==
    LET f == Float(texto)
    IN  IF f.classe = "float" /\ f.v # 0
        THEN [none |-> FALSE, valor |-> f.v, impresso |-> <<>>]
        ELSE [none |-> TRUE, valor |-> 0, impresso |-> <<Msg(MsgValorInvalido)>>]

\* validar_valor(valor): the amount, or None after the failure message.
validar_valor(texto) ==
    LET f == Float(texto)
    IN  IF f.classe = "float" /\ f.v > 0
        THEN [none |-> FALSE, valor |-> f.v, impresso |-> <<>>]
        ELSE [none |-> TRUE, valor |-> 0, impresso |-> <<Msg(MsgValorInvalido)>>]

\* One line of the statement: "Deposito:\tR$ 10.50\n".
Linha(rotulo, valor) == [rotulo |-> rotulo, valor |-> Formatar2f(valor)]

\* Mutant: the deposit replaces the balance instead of adding to it.
depositar_substitui(s, valor, e) ==
    [saldo |-> valor,
     extrato |-> Append(e, Linha("Deposito:", valor)),
     impresso |-> <<Msg(MsgDeposito)>>]

depositar(s, valor, e) ==
    [saldo |-> FAdd(s, valor),
     extrato |-> Append(e, Linha("Deposito:", valor)),
     impresso |-> <<Msg(MsgDeposito)>>]

\* What sacar returns when it refuses, printing m, and when it pays.
SaqueRecusado(s, e, n, m) ==
    [saldo |-> s, extrato |-> e, numero_saques |-> n, impresso |-> <<Msg(m)>>]
SaqueFeito(s, valor, e, n) ==
    [saldo |-> FSub(s, valor),
     extrato |-> Append(e, Linha("Saque:", valor)),
     numero_saques |-> n + 1,
     impresso |-> <<Msg(MsgSaque)>>]

\* Mutant: the per-transaction limit is not checked.
sacar_sem_limite(s, valor, e, lim, n, limite_saques) ==
    IF valor > s THEN SaqueRecusado(s, e, n, MsgSemSaldo)
    ELSE IF n >= limite_saques THEN SaqueRecusado(s, e, n, MsgExcedeSaques)
    ELSE SaqueFeito(s, valor, e, n)

\* Mutant: the limit is checked before the balance.
sacar_limite_primeiro(s, valor, e, lim, n, limite_saques) ==
    IF valor > lim THEN SaqueRecusado(s, e, n, MsgExcedeLimite)
    ELSE IF valor > s THEN SaqueRecusado(s, e, n, MsgSemSaldo)
    ELSE IF n >= limite_saques THEN SaqueRecusado(s, e, n, MsgExcedeSaques)
    ELSE SaqueFeito(s, valor, e, n)

\* Mutant: one withdrawal more than limite_saques is let through.
sacar_um_a_mais(s, valor, e, lim, n, limite_saques) ==
    IF valor > s THEN SaqueRecusado(s, e, n, MsgSemSaldo)
    ELSE IF valor > lim THEN SaqueRecusado(s, e, n, MsgExcedeLimite)
    ELSE IF n > limite_saques THEN SaqueRecusado(s, e, n, MsgExcedeSaques)
    ELSE SaqueFeito(s, valor, e, n)

sacar(s, valor, e, lim, n, limite_saques) ==
    LET excedeu_saldo == valor > s
        excedeu_limite == valor > lim
        excedeu_saques == n >= limite_saques
    IN  IF excedeu_saldo THEN SaqueRecusado(s, e, n, MsgSemSaldo)
        ELSE IF excedeu_limite THEN SaqueRecusado(s, e, n, MsgExcedeLimite)
        ELSE IF excedeu_saques THEN SaqueRecusado(s, e, n, MsgExcedeSaques)
        ELSE SaqueFeito(s, valor, e, n)

exibir_extrato(s, e) ==
    << [texto |-> "EXTRATO",
        corpo |-> IF e = <<>> THEN <<Msg(MsgSemMovimento)>> ELSE e,
        saldo |-> Formatar2f(s)] >>

\* filtrar_usuario(cpf, usuarios): the first user with that CPF, as a list of
\* one record, or the empty list for None.
filtrar_usuario(cpf, us) ==
    LET achados == {k \in 1..Len(us) : us[k].cpf = cpf}
    IN  IF achados = {} THEN <<>>
        ELSE <<us[CHOOSE k \in achados : \A l \in achados : k <= l]>>

listar_contas(cs) ==
    [k \in 1..Len(cs) |->
        [agencia |-> cs[k].agencia, cc |-> cs[k].numero_conta,
         titular |-> cs[k].usuario.nome]]

\* ------------------------------------------------------------ console input
\* Lines typed for the amount of a deposit: accepted ("1000", "inf") and
\* refused ("-5", "abc").
TextosDeposito ==
    { <<"1", "0", "0", "0">>, <<"i", "n", "f">>, <<"-", "5">>, <<"a", "b", "c">> }
\* Lines typed for the amount of a withdrawal: accepted ("500.00", "600") and
\* refused ("0", "nan").
TextosSaque ==
    { <<"5", "0", "0", ".", "0", "0">>, <<"6", "0", "0">>, <<"0">>, <<"n", "a", "n">> }
CPFs == { <<"1", "1">>, <<"2", "2">> }
Nomes == { <<"A", "n", "a">> }
Datas == { <<"0", "1", "-", "0", "2", "-", "1", "9", "9", "0">> }
Enderecos == { <<"R", "u", "a", " ", "1">> }
\* Lines typed at the menu that are no command.
OpcoesInvalidas == { "x" }

\* ------------------------------------------------------------ initial state
Usuario(nome, cpf) ==
    [nome |-> nome, data_nascimento |-> <<"0", "1", "-", "0", "2", "-", "1", "9", "9", "0">>,
     cpf |-> cpf, endereco |-> <<"R", "u", "a", " ", "1">>]
Ana == Usuario(<<"A", "n", "a">>, <<"1", "1">>)
Bia == Usuario(<<"B", "i", "a">>, <<"1", "1">>)
Conta(numero, u) == [agencia |-> AGENCIA, numero_conta |-> numero, usuario |-> u]

\* The files a program may find: none; one user with her account; two users
\* with the same CPF and an account file whose only number is 2.
ArquivosIniciais ==
    { (USUARIOS_FILE :> Ausente) @@ (CONTAS_FILE :> Ausente),
      (USUARIOS_FILE :> DumpUsuarios(<<Ana>>))
          @@ (CONTAS_FILE :> DumpContas(<<Conta(1, Ana)>>)),
      (USUARIOS_FILE :> DumpUsuarios(<<Ana, Bia>>))
          @@ (CONTAS_FILE :> DumpContas(<<Conta(2, Ana)>>)) }

\* main(), lines 143-146, before the files are loaded.
Init ==
    /\ arquivos \in ArquivosIniciais
    /\ pc = [i \in Inst |-> "inicio"]
    /\ saldo = [i \in Inst |-> 0]
    /\ extrato = [i \in Inst |-> <<>>]
    /\ numero_saques = [i \in Inst |-> 0]
    /\ usuarios = [i \in Inst |-> <<>>]
    /\ contas = [i \in Inst |-> <<>>]
    /\ opcao = [i \in Inst |-> ""]
    /\ saida = [i \in Inst |-> <<>>]

\* ------------------------------------------------------------ actions
Em(f, i, v) == [f EXCEPT ![i] = v]

Depositos(e) == Cardinality({k \in 1..Len(e) : e[k].rotulo = "Deposito:"})

\* usuarios = carregar_dados(USUARIOS_FILE)
CarregarUsuarios(i) ==
    /\ pc[i] = "inicio"
    /\ usuarios' = Em(usuarios, i, carregar_dados(USUARIOS_FILE))
    /\ pc' = Em(pc, i, "carregar_contas")
    /\ UNCHANGED <<arquivos, saldo, extrato, numero_saques, contas, opcao, saida>>

\* contas = carregar_dados(CONTAS_FILE)
CarregarContas(i) ==
    /\ pc[i] = "carregar_contas"
    /\ contas' = Em(contas, i, carregar_dados(CONTAS_FILE))
    /\ pc' = Em(pc, i, "menu")
    /\ UNCHANGED <<arquivos, saldo, extrato, numero_saques, usuarios, opcao, saida>>

\* opcao == "d", with the line typed for the amount
PassoD(i, texto) ==
    LET v == validar_valor(texto)
        r == depositar(saldo[i], v.valor, extrato[i])
    IN  /\ pc[i] = "menu"
        /\ opcao' = Em(opcao, i, "d")
        /\ IF ~v.none
           THEN /\ Depositos(extrato[i]) < MaxDepositos
                /\ saldo' = Em(saldo, i, r.saldo)
                /\ extrato' = Em(extrato, i, r.extrato)
                /\ saida' = Em(saida, i, v.impresso \o r.impresso)
           ELSE /\ saida' = Em(saida, i, v.impresso)
                /\ UNCHANGED <<saldo, extrato>>
        /\ UNCHANGED <<arquivos, pc, numero_saques, usuarios, contas>>

ComandoD(i) == \E texto \in TextosDeposito : PassoD(i, texto)

\* opcao == "s", with the line typed for the amount
PassoS(i, texto) ==
    LET v == validar_valor(texto)
        r == sacar(saldo[i], v.valor, extrato[i], limite, numero_saques[i],
                   LIMITE_SAQUES)
    IN  /\ pc[i] = "menu"
        /\ opcao' = Em(opcao, i, "s")
        /\ IF ~v.none
           THEN /\ saldo' = Em(saldo, i, r.saldo)
                /\ extrato' = Em(extrato, i, r.extrato)
                /\ numero_saques' = Em(numero_saques, i, r.numero_saques)
                /\ saida' = Em(saida, i, v.impresso \o r.impresso)
           ELSE /\ saida' = Em(saida, i, v.impresso)
                /\ UNCHANGED <<saldo, extrato, numero_saques>>
        /\ UNCHANGED <<arquivos, pc, usuarios, contas>>

ComandoS(i) == \E texto \in TextosSaque : PassoS(i, texto)

\* opcao == "e"
ComandoE(i) ==
    /\ pc[i] = "menu"
    /\ opcao' = Em(opcao, i, "e")
    /\ saida' = Em(saida, i, exibir_extrato(saldo[i], extrato[i]))
    /\ UNCHANGED <<arquivos, pc, saldo, extrato, numero_saques, usuarios, contas>>

\* Mutant: the CPF is not looked up before the user is added.
criar_usuario_sem_filtro(us, cpf, nome, data_nascimento, endereco) ==
    LET novos == Append(us, [nome |-> nome, data_nascimento |-> data_nascimento,
                             cpf |-> cpf, endereco |-> endereco])
    IN  [usuarios |-> novos,
         arquivos |-> salvar_dados(USUARIOS_FILE, DumpUsuarios(novos)),
         impresso |-> <<Msg(MsgUsuarioCriado)>>]

\* Mutant: the new user is not saved.
criar_usuario_sem_salvar(us, cpf, nome, data_nascimento, endereco) ==
    LET usuario == filtrar_usuario(cpf, us)
        novos == Append(us, [nome |-> nome, data_nascimento |-> data_nascimento,
                             cpf |-> cpf, endereco |-> endereco])
    IN  IF usuario # <<>>
        THEN [usuarios |-> us, arquivos |-> arquivos,
              impresso |-> <<Msg(MsgCpfExiste)>>]
        ELSE [usuarios |-> novos, arquivos |-> arquivos,
              impresso |-> <<Msg(MsgUsuarioCriado)>>]

\* criar_usuario(usuarios) with the lines typed: the user list, the files and
\* the output after it.
criar_usuario(us, cpf, nome, data_nascimento, endereco) ==
    LET usuario == filtrar_usuario(cpf, us)
        novos == Append(us, [nome |-> nome, data_nascimento |-> data_nascimento,
                             cpf |-> cpf, endereco |-> endereco])
    IN  IF usuario # <<>>
        THEN [usuarios |-> us, arquivos |-> arquivos,
              impresso |-> <<Msg(MsgCpfExiste)>>]
        ELSE [usuarios |-> novos,
              arquivos |-> salvar_dados(USUARIOS_FILE, DumpUsuarios(novos)),
              impresso |-> <<Msg(MsgUsuarioCriado)>>]

\* opcao == "nu", with the CPF typed and the name typed if it is asked
PassoNU(i, cpf, nome) ==
    \E data_nascimento \in Datas, endereco \in Enderecos :
        LET r == criar_usuario(usuarios[i], cpf, nome, data_nascimento, endereco)
        IN  /\ pc[i] = "menu"
            /\ Len(r.usuarios) <= MaxUsuarios
            /\ opcao' = Em(opcao, i, "nu")
            /\ usuarios' = Em(usuarios, i, r.usuarios)
            /\ arquivos' = r.arquivos
            /\ saida' = Em(saida, i, r.impresso)
            /\ UNCHANGED <<pc, saldo, extrato, numero_saques, contas>>

ComandoNU(i) == \E cpf \in CPFs, nome \in Nomes : PassoNU(i, cpf, nome)

\* Mutant: the account is opened whether or not the user is found.
criar_conta_sem_usuario(agencia, numero_conta, us, cs, cpf) ==
    LET usuario == filtrar_usuario(cpf, us)
        dono == IF usuario # <<>> THEN usuario[1]
                ELSE [nome |-> <<>>, data_nascimento |-> <<>>, cpf |-> cpf,
                      endereco |-> <<>>]
        conta == [agencia |-> agencia, numero_conta |-> numero_conta,
                  usuario |-> dono]
    IN  [contas |-> Append(cs, conta),
         arquivos |-> salvar_dados(CONTAS_FILE, DumpContas(Append(cs, conta))),
         impresso |-> <<Msg(MsgContaCriada)>>]

\* criar_conta(agencia, numero_conta, usuarios, contas) with the CPF typed: the
\* account list, the files and the output after it.
criar_conta(agencia, numero_conta, us, cs, cpf) ==
    LET usuario == filtrar_usuario(cpf, us)
        conta == [agencia |-> agencia, numero_conta |-> numero_conta,
                  usuario |-> usuario[1]]
    IN  IF usuario # <<>>
        THEN [contas |-> Append(cs, conta),
              arquivos |-> salvar_dados(CONTAS_FILE, DumpContas(Append(cs, conta))),
              impresso |-> <<Msg(MsgContaCriada)>>]
        ELSE [contas |-> cs, arquivos |-> arquivos,
              impresso |-> <<Msg(MsgSemUsuario)>>]

\* Mutant: the number of the last account is given again.
numero_conta_repetido(cs) == IF cs = <<>> THEN 1 ELSE Len(cs)

\* numero_conta = len(contas) + 1
numero_conta(cs) == Len(cs) + 1

\* opcao == "nc", with the CPF typed
PassoNC(i, cpf) ==
    LET r == criar_conta(AGENCIA, numero_conta(contas[i]), usuarios[i], contas[i], cpf)
    IN  /\ pc[i] = "menu"
        /\ Len(r.contas) <= MaxContas
        /\ opcao' = Em(opcao, i, "nc")
        /\ contas' = Em(contas, i, r.contas)
        /\ arquivos' = r.arquivos
        /\ saida' = Em(saida, i, r.impresso)
        /\ UNCHANGED <<pc, saldo, extrato, numero_saques, usuarios>>

ComandoNC(i) == \E cpf \in CPFs : PassoNC(i, cpf)

\* opcao == "lc"
ComandoLC(i) ==
    /\ pc[i] = "menu"
    /\ opcao' = Em(opcao, i, "lc")
    /\ saida' = Em(saida, i, listar_contas(contas[i]))
    /\ UNCHANGED <<arquivos, pc, saldo, extrato, numero_saques, usuarios, contas>>

\* opcao == "q"
ComandoQ(i) ==
    /\ pc[i] = "menu"
    /\ opcao' = Em(opcao, i, "q")
    /\ saida' = Em(saida, i, <<Msg(MsgSaindo)>>)
    /\ pc' = Em(pc, i, "fim")
    /\ UNCHANGED <<arquivos, saldo, extrato, numero_saques, usuarios, contas>>

\* any other line
ComandoInvalido(i) ==
    /\ pc[i] = "menu"
    /\ \E o \in OpcoesInvalidas : opcao' = Em(opcao, i, o)
    /\ saida' = Em(saida, i, <<Msg(MsgOpcaoInvalida)>>)
    /\ UNCHANGED <<arquivos, pc, saldo, extrato, numero_saques, usuarios, contas>>

\* ------------------------------------------------------------ specifications
\* One step of instance i.
Passo(i) ==
    \/ CarregarUsuarios(i)
    \/ CarregarContas(i)
    \/ ComandoD(i)
    \/ ComandoS(i)
    \/ ComandoE(i)
    \/ ComandoNU(i)
    \/ ComandoNC(i)
    \/ ComandoLC(i)
    \/ ComandoQ(i)
    \/ ComandoInvalido(i)

\* One running program.
Next == Passo(1)

Spec == Init /\ [][Next]_vars

\* Two programs running against the same files.  The commands d, s, e and an
\* unknown command read and write only their own program's saldo, extrato,
\* numero_saques, opcao and saida; they are left out here.
PassoDiretorio(i) ==
    \/ CarregarUsuarios(i)
    \/ CarregarContas(i)
    \/ ComandoNU(i)
    \/ ComandoNC(i)
    \/ ComandoLC(i)
    \/ ComandoQ(i)

NextDois == \E i \in Inst : PassoDiretorio(i)

SpecDois == Init /\ [][NextDois]_vars

\* ====================================================================
\* Properties of the ledger (one program, Spec)
\* ====================================================================
\* The line typed is a number the validator accepts, and its amount.
Positivo(texto) == Float(texto).classe = "float" /\ Float(texto).v > 0
Quantia(texto) == Float(texto).v

\* The step leaves the ledger of program 1 as it was.
LedgerIgual ==
    /\ saldo'[1] = saldo[1]
    /\ extrato'[1] = extrato[1]
    /\ numero_saques'[1] = numero_saques[1]

\* The step appends exactly one line to the statement of program 1.
GanhaUmaLinha ==
    /\ Len(extrato'[1]) = Len(extrato[1]) + 1
    /\ SubSeq(extrato'[1], 1, Len(extrato[1])) = extrato[1]

\* C1: a withdrawal command changes the ledger only when the amount is at
\* most the balance, at most the limit of 500.00 and fewer than 3 withdrawals
\* were made; the balance then goes down by the amount (an infinite balance
\* stays infinite), the statement gains one line and the count goes up by one.
C1_SaqueSoDentroDasRegras ==
    [][\A texto \in TextosSaque :
          (PassoS(1, texto) /\ ~LedgerIgual) =>
              /\ Positivo(texto)
              /\ Quantia(texto) <= saldo[1]
              /\ Quantia(texto) <= 50000
              /\ numero_saques[1] < 3
              /\ saldo'[1] = FSub(saldo[1], Quantia(texto))
              /\ GanhaUmaLinha
              /\ numero_saques'[1] = numero_saques[1] + 1]_vars

\* A withdrawal of the whole balance has just been paid.
C1_Witness ==
    /\ opcao[1] = "s"
    /\ saida[1] = <<Msg(MsgSaque)>>
    /\ numero_saques[1] = 2
    /\ saldo[1] = 0

\* C2: a refused withdrawal leaves the ledger as it was and prints one
\* message: insufficient balance when the amount is above the balance (whatever
\* the limit and the count), limit exceeded when it is within the balance but
\* above the limit, and maximum of withdrawals only otherwise, when the count
\* is 3 or more.
C2_RecusaEmOrdemFixa ==
    [][\A texto \in TextosSaque :
          (PassoS(1, texto) /\ Positivo(texto)) =>
              /\ Quantia(texto) > saldo[1] =>
                    LedgerIgual /\ saida'[1] = <<Msg(MsgSemSaldo)>>
              /\ (Quantia(texto) <= saldo[1] /\ Quantia(texto) > 50000) =>
                    LedgerIgual /\ saida'[1] = <<Msg(MsgExcedeLimite)>>
              /\ (Quantia(texto) <= saldo[1] /\ Quantia(texto) <= 50000
                    /\ numero_saques[1] >= 3) =>
                    LedgerIgual /\ saida'[1] = <<Msg(MsgExcedeSaques)>>]_vars

\* With the count exhausted and the amount above both the balance and the
\* limit, the message printed is the one about the balance.
C2_Witness ==
    /\ opcao[1] = "s"
    /\ numero_saques[1] = 3
    /\ saldo[1] < 60000
    /\ saida[1] = <<Msg(MsgSemSaldo)>>

\* C3 as stated: after 3 withdrawals every further attempt, whatever the
\* amount, prints the message about the maximum of withdrawals.
C3_Original ==
    [][\A texto \in TextosSaque :
          (PassoS(1, texto) /\ Positivo(texto) /\ numero_saques[1] = 3) =>
              LedgerIgual /\ saida'[1] = <<Msg(MsgExcedeSaques)>>]_vars

\* C3 amended: after 3 withdrawals every further attempt leaves the ledger as
\* it was; it prints the message about the maximum of withdrawals when the
\* amount is within the balance and the limit, and otherwise the message of
\* the check that refuses it first.
C3_AposTresSaquesNadaMuda ==
    [][\A texto \in TextosSaque :
          (PassoS(1, texto) /\ numero_saques[1] = 3) =>
              /\ LedgerIgual
              /\ Len(saida'[1]) = 1
              /\ saida'[1] = <<Msg(MsgExcedeSaques)>> <=>
                    /\ Positivo(texto)
                    /\ Quantia(texto) <= saldo[1]
                    /\ Quantia(texto) <= 50000]_vars

\* A fourth withdrawal within balance and limit has just been refused.
C3_Witness ==
    /\ opcao[1] = "s"
    /\ numero_saques[1] = 3
    /\ saldo[1] >= 50000
    /\ saida[1] = <<Msg(MsgExcedeSaques)>>

\* C4: a deposit command with a positive amount succeeds: the balance becomes
\* balance + amount, the statement gains one line at its end, and the count of
\* withdrawals and both directories stay as they were.
C4_DepositoSoma ==
    [][\A texto \in TextosDeposito :
          (PassoD(1, texto) /\ Positivo(texto)) =>
              /\ saldo'[1] = FAdd(saldo[1], Quantia(texto))
              /\ GanhaUmaLinha
              /\ saida'[1] = <<Msg(MsgDeposito)>>
              /\ numero_saques'[1] = numero_saques[1]
              /\ usuarios'[1] = usuarios[1]
              /\ contas'[1] = contas[1]]_vars

\* A deposit has just been added to a balance and a statement that were not
\* empty.
C4_Witness ==
    /\ opcao[1] = "d"
    /\ saida[1] = <<Msg(MsgDeposito)>>
    /\ Len(extrato[1]) = 3
    /\ extrato[1][2].rotulo = "Saque:"
    /\ saldo[1] = 150000

\* The amounts of the withdrawal lines of a statement, added up.
RECURSIVE TotalSacado(_)
TotalSacado(e) ==
    IF e = <<>> THEN 0
    ELSE TotalSacado(SubSeq(e, 1, Len(e) - 1))
         + (IF e[Len(e)].rotulo = "Saque:" THEN Float(e[Len(e)].valor).v ELSE 0)

\* C10: the balance is never negative, the count of withdrawals is between 0
\* and 3, and the withdrawals of a session add up to at most 1500.00.
C10_SaldoEContagem ==
    /\ saldo[1] >= 0
    /\ numero_saques[1] >= 0
    /\ numero_saques[1] <= 3
    /\ TotalSacado(extrato[1]) <= 150000

\* Three withdrawals of 500.00 were paid.
C10_Witness ==
    /\ numero_saques[1] = 3
    /\ TotalSacado(extrato[1]) = 150000

\* ====================================================================
\* Properties of the directories (one program, Spec)
\* ====================================================================
TemCpf(us, cpf) == \E k \in 1..Len(us) : us[k].cpf = cpf

\* No two records of the list have the same CPF.
CpfsDistintos(us) ==
    \A k, l \in 1..Len(us) : us[k].cpf = us[l].cpf => k = l

\* Every account's owner is a record of the user list.
SemOrfas(us, cs) ==
    \A k \in 1..Len(cs) : \E l \in 1..Len(us) : us[l] = cs[k].usuario

\* The k-th account has number k.
Numeradas(cs) == \A k \in 1..Len(cs) : cs[k].numero_conta = k

NumerosDistintos(cs) ==
    \A k, l \in 1..Len(cs) : cs[k].numero_conta = cs[l].numero_conta => k = l

\* C5: a new-user command with a CPF already in the directory adds nothing,
\* leaves the files as they were and prints the duplicate message; and no
\* command makes two users share a CPF when none did at the menu before it.
C5_CpfRepetidoRecusado ==
    [][/\ \A cpf \in CPFs, nome \in Nomes :
              (PassoNU(1, cpf, nome) /\ TemCpf(usuarios[1], cpf)) =>
                  /\ usuarios'[1] = usuarios[1]
                  /\ arquivos' = arquivos
                  /\ saida'[1] = <<Msg(MsgCpfExiste)>>
       /\ (pc[1] = "menu" /\ CpfsDistintos(usuarios[1])) =>
              CpfsDistintos(usuarios'[1])]_vars

\* A second user with the CPF of the first was just refused.
C5_Witness ==
    /\ opcao[1] = "nu"
    /\ saida[1] = <<Msg(MsgCpfExiste)>>
    /\ Len(usuarios[1]) = 2
    /\ CpfsDistintos(usuarios[1])

\* C6: a new-account command for a CPF that no user has adds nothing to the
\* accounts, leaves the files as they were and says so; and no command leaves
\* an account without its owner in the user directory when there was none at
\* the menu before it (as after a start from empty files).
C6_ContaSoParaUsuario ==
    [][/\ \A cpf \in CPFs :
              (PassoNC(1, cpf) /\ ~TemCpf(usuarios[1], cpf)) =>
                  /\ contas'[1] = contas[1]
                  /\ arquivos' = arquivos
                  /\ saida'[1] = <<Msg(MsgSemUsuario)>>
       /\ (pc[1] = "menu" /\ SemOrfas(usuarios[1], contas[1])) =>
              SemOrfas(usuarios'[1], contas'[1])
       /\ (CarregarContas(1) /\ arquivos[USUARIOS_FILE].t = "ausente"
              /\ arquivos[CONTAS_FILE].t = "ausente") =>
              SemOrfas(usuarios'[1], contas'[1])]_vars

\* An account was just refused for a CPF that no user of a directory with a
\* user and an account has.
C6_Witness ==
    /\ opcao[1] = "nc"
    /\ saida[1] = <<Msg(MsgSemUsuario)>>
    /\ Len(usuarios[1]) = 1
    /\ Len(contas[1]) = 1

\* C7: whenever the program waits for a command, loading the two files gives
\* its user list and its account list, an absent file giving the empty list;
\* a file that exists holds the dump of that list and nothing else (nothing
\* of the ledger).
C7_ArquivosIguaisAMemoria ==
    pc[1] = "menu" =>
        /\ carregar_dados(USUARIOS_FILE) = usuarios[1]
        /\ carregar_dados(CONTAS_FILE) = contas[1]
        /\ arquivos[USUARIOS_FILE] \in {Ausente, DumpUsuarios(usuarios[1])}
        /\ arquivos[CONTAS_FILE] \in {Ausente, DumpContas(contas[1])}

\* Two users and an account were created from empty files, a deposit and a
\* withdrawal were made, and the program waits for a command.
C7_Witness ==
    /\ pc[1] = "menu"
    /\ Len(usuarios[1]) = 2
    /\ usuarios[1][1].cpf = <<"2", "2">>
    /\ Len(contas[1]) = 1
    /\ numero_saques[1] = 1
    /\ opcao[1] = "x"

\* C8: an account created by the new-account command has the number of
\* accounts before it plus one, a refused command adds no account, and no
\* command breaks "the k-th account has number k" (so the numbers are
\* distinct) when it held at the menu before it.
C8_NumeroEhContagemMaisUm ==
    [][/\ \A cpf \in CPFs :
              PassoNC(1, cpf) =>
                  \/ contas'[1] = contas[1]
                  \/ /\ TemCpf(usuarios[1], cpf)
                     /\ Len(contas'[1]) = Len(contas[1]) + 1
                     /\ SubSeq(contas'[1], 1, Len(contas[1])) = contas[1]
                     /\ contas'[1][Len(contas'[1])].numero_conta = Len(contas[1]) + 1
       /\ (pc[1] = "menu" /\ Numeradas(contas[1])) =>
              Numeradas(contas'[1]) /\ NumerosDistintos(contas'[1])]_vars

\* After a refused new-account command, a second account was created with
\* number 2.
C8_Witness ==
    /\ opcao[1] = "nc"
    /\ saida[1] = <<Msg(MsgContaCriada)>>
    /\ Len(usuarios[1]) = 1
    /\ Len(contas[1]) = 2
    /\ Numeradas(contas[1])

\* ====================================================================
\* Two programs on the same files (SpecDois)
\* ====================================================================
\* C9: after a program creates a user or an account, the file holds exactly
\* that program's list, whatever another program wrote before.
C9_UltimoQueEscreveVence ==
    [][\A i \in Inst :
          /\ (pc[i] = "menu" /\ usuarios'[i] # usuarios[i]) =>
                JsonLoad(arquivos'[USUARIOS_FILE]) = usuarios'[i]
          /\ (pc[i] = "menu" /\ contas'[i] # contas[i]) =>
                JsonLoad(arquivos'[CONTAS_FILE]) = contas'[i]]_vars

\* Both programs started from empty files.  Program 2 created user 22 and an
\* account for her; program 1 created users 11 and 22 and an account for 11.
\* Both accounts have number 1, both programs hold a user 22 they created,
\* and the account of program 2 is no longer in the accounts file.
C9_Witness ==
    /\ usuarios[1] = <<Usuario(<<"A", "n", "a">>, <<"1", "1">>),
                       Usuario(<<"A", "n", "a">>, <<"2", "2">>)>>
    /\ usuarios[2] = <<Usuario(<<"A", "n", "a">>, <<"2", "2">>)>>
    /\ contas[1] = <<Conta(1, usuarios[1][1])>>
    /\ contas[2] = <<Conta(1, usuarios[2][1])>>
    /\ arquivos[CONTAS_FILE] = DumpContas(contas[1])
    /\ arquivos[USUARIOS_FILE] = DumpUsuarios(usuarios[1])

====
